---------------------------- MODULE Spec2Model ----------------------------
(***************************************************************************)
(* A model of compy (src/compy.py): the table-driven Lexer and the parser  *)
(* combinators, with the demonstration lexer and grammar of src/demo.py.   *)
(*                                                                         *)
(* Text is a sequence of one-character strings.  A regular expression is   *)
(* one of the shapes the demo uses, a character class repeated: the record *)
(* [cls, min] stands for "[cls]+" (min = 1) or "[cls]*" (min = 0), and     *)
(* re.match on it returns the longest run of class characters at the start *)
(* of the text, or None when the run is shorter than min.                  *)
(***************************************************************************)
EXTENDS Integers, Sequences, FiniteSets, TLC

VARIABLES
  regexes,       \* Lexer.regexes: dict type -> regex, as its ordered items
  strings,       \* Lexer.strings: dict type -> literal, as its ordered items
  regex_skips,   \* Lexer.regex_skips: list of regexes
  string_skips,  \* Lexer.string_skips: list of literals
  nregs,         \* number of registration calls made so far
  pc,            \* where the program is: configuring, inside lex, returned
  source,        \* the code argument lex was called with
  code,          \* lex's local: the text still to be read
  line,          \* lex's local
  column,        \* lex's local
  tokens,        \* lex's local: the tokens recorded so far
  matched,       \* lex's local
  skip_matched,  \* _run_skips' local
  error,         \* the LexingError lex returned, or NoError
  ptokens,       \* the token list last handed to Parser.parse
  parser,        \* the parser built so far, as its construction term
  result         \* what parser.parse(ptokens) returned (or raised), or NoResult

lexvars == <<regexes, strings, regex_skips, string_skips, nregs, pc, source,
             code, line, column, tokens, matched, skip_matched, error>>
parvars == <<ptokens, parser, result>>
vars == <<regexes, strings, regex_skips, string_skips, nregs, pc, source,
          code, line, column, tokens, matched, skip_matched, error,
          ptokens, parser, result>>

---------------------------------------------------------------------------
(* Bounds of the model. *)

\* registration calls made on a fresh Lexer
MaxRegs == 2
\* length of the enumerated source texts
MaxLen == 3
\* combinators applied, one inside the other, to build a parser
MaxDepth == 1
\* length of the token lists parsed
MaxToks == 3

---------------------------------------------------------------------------
(* Text helpers. *)

\* str.startswith
StartsWith(text, prefix) ==
  /\ Len(prefix) <= Len(text)
  /\ SubSeq(text, 1, Len(prefix)) = prefix

\* text[n:]
Drop(text, n) == SubSeq(text, n + 1, Len(text))

\* all texts over alphabet of length at most n
RECURSIVE TextsUpTo(_, _)
TextsUpTo(alphabet, n) ==
  IF n = 0 THEN {<<>>}
  ELSE LET shorter == TextsUpTo(alphabet, n - 1)
       IN  shorter \cup {Append(t, c) : t \in shorter, c \in alphabet}

\* the characters of the enumerated sources
Alphabet == {"1", "+", " ", "\n"}

DigitChars == {"1", "2", "3"}
SpaceChars == {" ", "\n"}

\* r"\d+", r"\s+", r"\s*"
Digits == [cls |-> DigitChars, min |-> 1, anchored |-> FALSE]
Spaces == [cls |-> SpaceChars, min |-> 1, anchored |-> FALSE]
SpacesOpt == [cls |-> SpaceChars, min |-> 0, anchored |-> FALSE]

\* the arguments the registration calls are tried with
RegexArgs == {Digits, Spaces, SpacesOpt}
StrArgs == {<<"+">>, <<"1", "+">>}
SkipStrArgs == {<<" ">>, <<>>}
TypeArgs == {"Int", "Plus"}

---------------------------------------------------------------------------
(* Lexer: registration. *)

\* "^(" + regex + ")"
Anchor(regex) == [regex EXCEPT !.anchored = TRUE]

\* d[key] = val on a dict kept as the sequence of its items: an existing key
\* keeps its place and gets the new value, a new key goes to the end
DictSet(d, key, val) ==
  IF \E i \in 1..Len(d) : d[i].key = key
    THEN [i \in 1..Len(d) |->
            IF d[i].key = key THEN [key |-> key, val |-> val] ELSE d[i]]
    ELSE Append(d, [key |-> key, val |-> val])

add_regex(type, regex) ==
  /\ pc = "config"
  /\ nregs < MaxRegs
  /\ regexes' = DictSet(regexes, type, Anchor(regex))
  /\ nregs' = nregs + 1
  /\ UNCHANGED <<strings, regex_skips, string_skips, pc, source, code, line,
                 column, tokens, matched, skip_matched, error>>
  /\ UNCHANGED parvars

add_str(type, string) ==
  /\ pc = "config"
  /\ nregs < MaxRegs
  /\ strings' = DictSet(strings, type, string)
  /\ nregs' = nregs + 1
  /\ UNCHANGED <<regexes, regex_skips, string_skips, pc, source, code, line,
                 column, tokens, matched, skip_matched, error>>
  /\ UNCHANGED parvars

skip_regex(regex) ==
  /\ pc = "config"
  /\ nregs < MaxRegs
  /\ regex_skips' = Append(regex_skips, Anchor(regex))
  /\ nregs' = nregs + 1
  /\ UNCHANGED <<regexes, strings, string_skips, pc, source, code, line,
                 column, tokens, matched, skip_matched, error>>
  /\ UNCHANGED parvars

skip_string(string) ==
  /\ pc = "config"
  /\ nregs < MaxRegs
  /\ string_skips' = Append(string_skips, string)
  /\ nregs' = nregs + 1
  /\ UNCHANGED <<regexes, strings, regex_skips, pc, source, code, line,
                 column, tokens, matched, skip_matched, error>>
  /\ UNCHANGED parvars

\* the lexer demo.py builds at import
DemoRegexes == DictSet(<<>>, "Int", Anchor(Digits))
DemoStrings ==
  DictSet(DictSet(DictSet(DictSet(<<>>, "Plus", <<"+">>), "Times", <<"*">>),
                  "LeftParen", <<"(">>), "RightParen", <<")">>)
DemoRegexSkips == <<Anchor(Spaces)>>
DemoRegs == 6

IsDemoLexer ==
  /\ regexes = DemoRegexes
  /\ strings = DemoStrings
  /\ regex_skips = DemoRegexSkips
  /\ string_skips = <<>>

---------------------------------------------------------------------------
(* Lexer: lex. *)

\* re.match(regex, text): the length of the match, or -1 for None
RECURSIVE RunLen(_, _)
RunLen(cls, text) ==
  IF text # <<>> /\ Head(text) \in cls THEN 1 + RunLen(cls, Tail(text)) ELSE 0

ReMatch(regex, text) ==
  LET n == RunLen(regex.cls, text)
  IN  IF n >= regex.min THEN n ELSE -1

\* IncrementLocation with the column kept across a newline
RECURSIVE IncrementLocationNoReset(_, _, _)
IncrementLocationNoReset(l, c, whole) ==
  IF whole = <<>> THEN [line |-> l, column |-> c]
  ELSE IF Head(whole) = "\n"
    THEN IncrementLocationNoReset(l + 1, c, Tail(whole))
    ELSE IncrementLocationNoReset(l, c + 1, Tail(whole))

RECURSIVE IncrementLocation(_, _, _)
IncrementLocation(l, c, whole) ==
  IF whole = <<>> THEN [line |-> l, column |-> c]
  ELSE IF Head(whole) = "\n"
    THEN IncrementLocation(l + 1, 1, Tail(whole))
    ELSE IncrementLocation(l, c + 1, Tail(whole))

\* Consume with the location left where it was
ConsumeKeepsLocation(st, n) ==
  [line |-> st.line, column |-> st.column, code |-> Drop(st.code, n),
   skip_matched |-> TRUE]

\* st is _run_skips' (line, column, code, skip_matched)
Consume(st, n) ==
  LET loc == IncrementLocation(st.line, st.column, SubSeq(st.code, 1, n))
  IN  [line |-> loc.line, column |-> loc.column, code |-> Drop(st.code, n),
       skip_matched |-> TRUE]

\* for skip in self.regex_skips, from the i-th on
RECURSIVE RegexSkipLoop(_, _, _)
RegexSkipLoop(skips, i, st) ==
  IF i > Len(skips) THEN st
  ELSE LET n == ReMatch(skips[i], st.code)
       IN  IF n = -1 THEN RegexSkipLoop(skips, i + 1, st)
           ELSE RegexSkipLoop(skips, i + 1, Consume(st, n))

\* for skip in self.string_skips, from the i-th on
RECURSIVE StringSkipLoop(_, _, _)
StringSkipLoop(skips, i, st) ==
  IF i > Len(skips) THEN st
  ELSE IF ~StartsWith(st.code, skips[i]) THEN StringSkipLoop(skips, i + 1, st)
       ELSE StringSkipLoop(skips, i + 1, Consume(st, Len(skips[i])))

\* one pass of _run_skips' while True body
SkipPass(l, c, text) ==
  StringSkipLoop(string_skips, 1,
    RegexSkipLoop(regex_skips, 1,
      [line |-> l, column |-> c, code |-> text, skip_matched |-> FALSE]))

Token(type, value, l, c) ==
  [type |-> type, value |-> value, line |-> l, column |-> c]

\* tokens.append: the list is recorded up to a length no returning call
\* reaches (an iteration that leaves the text as it was repeats for ever, so
\* a returning call makes at most Len(source) iterations of two tokens each)
MaxOut == 2 * Len(source) + 1
Record(toks, tok) == IF Len(toks) < MaxOut THEN Append(toks, tok) ELSE toks

\* the first registered regex that matches text, 0 when none does
FirstRegex(text) ==
  IF \E i \in 1..Len(regexes) : ReMatch(regexes[i].val, text) # -1
    THEN CHOOSE i \in 1..Len(regexes) :
           /\ ReMatch(regexes[i].val, text) # -1
           /\ \A j \in 1..(i - 1) : ReMatch(regexes[j].val, text) = -1
    ELSE 0

\* the first registered literal text starts with, 0 when none
FirstString(text) ==
  IF \E i \in 1..Len(strings) : StartsWith(text, strings[i].val)
    THEN CHOOSE i \in 1..Len(strings) :
           /\ StartsWith(text, strings[i].val)
           /\ \A j \in 1..(i - 1) : ~StartsWith(text, strings[j].val)
    ELSE 0

NoError == [line |-> 0, column |-> 0, char |-> ""]

\* lex(file_path, text): the locals are set and the while test is made
Enter(text) ==
  /\ source' = text
  /\ code' = text
  /\ line' = 1
  /\ column' = 1
  /\ tokens' = <<>>
  /\ pc' = IF Len(text) > 0 THEN "skips" ELSE "done"
  /\ UNCHANGED <<regexes, strings, regex_skips, string_skips, nregs, matched,
                 skip_matched, error>>
  /\ UNCHANGED parvars

\* the source texts lex is called with
Sources == TextsUpTo(Alphabet, MaxLen)

Lex ==
  /\ pc = "config"
  /\ \E text \in Sources : Enter(text)

\* demo.py: lexer.lex("<stdin>", code)
DemoSources ==
  { <<"1", " ", "*", " ", "(", "2", " ", "+", " ", "3", ")">>,
    <<"1", " ", "$", " ", "2">>,
    <<"(", "1">> }

DemoLex ==
  /\ pc = "config"
  /\ IsDemoLexer
  /\ \E text \in DemoSources : Enter(text)

\* _run_skips, one pass of its loop
RunSkipsPass ==
  /\ pc = "skips"
  /\ LET st == SkipPass(line, column, code)
     IN  /\ line' = st.line
         /\ column' = st.column
         /\ code' = st.code
         /\ skip_matched' = st.skip_matched
  /\ pc' = "skips_check"
  /\ UNCHANGED <<regexes, strings, regex_skips, string_skips, nregs, source,
                 tokens, matched, error>>
  /\ UNCHANGED parvars

\* if not skip_matched: break; back in lex, if len(code) <= 0: break
RunSkipsCheck ==
  /\ pc = "skips_check"
  /\ pc' = IF skip_matched THEN "skips"
           ELSE IF Len(code) <= 0 THEN "done" ELSE "regexes"
  /\ skip_matched' = FALSE
  /\ UNCHANGED <<regexes, strings, regex_skips, string_skips, nregs, source,
                 code, line, column, tokens, matched, error>>
  /\ UNCHANGED parvars

\* matched = False; for type, regex in self.regexes.items()
MatchRegexes ==
  /\ pc = "regexes"
  /\ LET i == FirstRegex(code)
     IN  IF i = 0
           THEN /\ matched' = FALSE
                /\ UNCHANGED <<code, line, column, tokens>>
           ELSE LET n == ReMatch(regexes[i].val, code)
                    loc == IncrementLocation(line, column, SubSeq(code, 1, n))
                IN  /\ matched' = TRUE
                    /\ code' = Drop(code, n)
                    /\ line' = loc.line
                    /\ column' = loc.column
                    /\ tokens' = Record(tokens,
                         Token(regexes[i].key, SubSeq(code, 1, n), line, column))
  /\ pc' = "strings"
  /\ UNCHANGED <<regexes, strings, regex_skips, string_skips, nregs, source,
                 skip_matched, error>>
  /\ UNCHANGED parvars

\* for type, string in self.strings.items(); if not matched; the while test
MatchStrings ==
  /\ pc = "strings"
  /\ LET i == FirstString(code)
     IN  IF i = 0
           THEN /\ UNCHANGED <<code, line, column, tokens, matched>>
                /\ IF matched
                     THEN /\ pc' = IF Len(code) > 0 THEN "skips" ELSE "done"
                          /\ UNCHANGED error
                     ELSE /\ pc' = "error"
                          /\ error' = [line |-> line, column |-> column,
                                       char |-> code[1]]
           ELSE LET s == strings[i].val
                    loc == IncrementLocation(line, column, s)
                IN  /\ matched' = TRUE
                    /\ code' = Drop(code, Len(s))
                    /\ line' = loc.line
                    /\ column' = loc.column
                    /\ tokens' = Record(tokens,
                         Token(strings[i].key, s, line, column))
                    /\ pc' = IF Len(code') > 0 THEN "skips" ELSE "done"
                    /\ UNCHANGED error
  /\ UNCHANGED <<regexes, strings, regex_skips, string_skips, nregs, source,
                 skip_matched>>
  /\ UNCHANGED parvars

---------------------------------------------------------------------------
(* Parsers.  A Parser is kept as the term that built it; p.parse(tokens)   *)
(* is Parse(p, tokens).  A result is a ParsingSuccess, a ParsingFailure or *)
(* the IndexError a parse function raised; calls counts the primitive      *)
(* parse functions that ran to produce it.                                 *)

EOF == [type |-> "EOF", value |-> <<>>, line |-> 0, column |-> 0]

ParsingSuccess(value, rest, calls) ==
  [kind |-> "Success", value |-> value, rest |-> rest,
   expected |-> <<>>, got |-> EOF, calls |-> calls]
ParsingFailure(expected, got, calls) ==
  [kind |-> "Failure", value |-> <<>>, rest |-> <<>>,
   expected |-> expected, got |-> got, calls |-> calls]
IndexError(calls) ==
  [kind |-> "IndexError", value |-> <<>>, rest |-> <<>>,
   expected |-> <<>>, got |-> EOF, calls |-> calls]
NoResult ==
  [kind |-> "None", value |-> <<>>, rest |-> <<>>,
   expected |-> <<>>, got |-> EOF, calls |-> 0]

\* the terms
TokenP(type, mapper) == <<"token", type, mapper>>
Singleton(type, value) == <<"singleton", type, value>>
Ignore(type) == <<"ignore", type>>
Lazy(parser_fn) == <<"lazy", parser_fn>>
SequenceRight(a, b) == <<"sequence_right", a, b>>
SequenceLeft(a, b) == <<"sequence_left", a, b>>
Sequence(a, b) == <<"sequence", a, b>>
Alt(a, b) == <<"alt", a, b>>
Map(seqparser, mapper) == <<"map", seqparser, mapper>>

\* values: None, the dataclass Seq(x, y), and a mapper applied to its arguments
None == <<>>
SeqOf(x, y) == <<"Seq", x, y>>
Apply1(mapper, x) == <<mapper, x>>
Apply2(mapper, x, y) == <<mapper, x, y>>

\* demo.py's grammar; a lazy parser names the function that returns it
int_parser == TokenP("Int", "int_node")
expr_parser == Lazy("expr")
times_parser == Lazy("times")
plus_parser == Lazy("plus")
atom_parser ==
  Alt(int_parser,
      SequenceLeft(SequenceRight(Ignore("LeftParen"), expr_parser),
                   Ignore("RightParen")))
term_parser == Alt(times_parser, atom_parser)
ParserFn(name) ==
  CASE name = "expr" -> Alt(plus_parser, term_parser)
    [] name = "times" ->
         Map(Sequence(SequenceLeft(atom_parser, Ignore("Times")), atom_parser),
             "times_node")
    [] name = "plus" ->
         Map(Sequence(SequenceLeft(term_parser, Ignore("Plus")), term_parser),
             "plus_node")

\* tokens[1] of Python: the second token, IndexError when there is none
TokenParse(type, mapper, toks) ==
  IF Len(toks) = 0 THEN ParsingFailure(<<type>>, EOF, 1)
  ELSE IF toks[1].type = type
    THEN ParsingSuccess(Apply1(mapper, toks[1].value), Tail(toks), 1)
  ELSE IF Len(toks) < 2 THEN IndexError(1)
  ELSE ParsingFailure(<<type>>, toks[2], 1)

SingletonParse(type, value, toks) ==
  IF Len(toks) = 0 THEN ParsingFailure(<<type>>, EOF, 1)
  ELSE IF toks[1].type = type THEN ParsingSuccess(value, Tail(toks), 1)
  ELSE ParsingFailure(<<type>>, toks[1], 1)

\* IgnoreParse with tokens[:1] for tokens[1:]
IgnoreParseKeepsHead(type, toks) ==
  IF Len(toks) = 0 THEN ParsingFailure(<<type>>, EOF, 1)
  ELSE IF toks[1].type = type THEN ParsingSuccess(None, SubSeq(toks, 1, 1), 1)
  ELSE ParsingFailure(<<type>>, toks[1], 1)

IgnoreParse(type, toks) ==
  IF Len(toks) = 0 THEN ParsingFailure(<<type>>, EOF, 1)
  ELSE IF toks[1].type = type THEN ParsingSuccess(None, Tail(toks), 1)
  ELSE ParsingFailure(<<type>>, toks[1], 1)

RECURSIVE Parse(_, _)

SequenceRightParse(a, b, toks) ==
  LET result1 == Parse(a, toks)
  IN  CASE result1.kind = "Failure" ->
             ParsingFailure(result1.expected, result1.got, result1.calls)
        [] result1.kind = "Success" ->
             LET result2 == Parse(b, result1.rest)
             IN  [result2 EXCEPT !.calls = result1.calls + result2.calls]
        [] OTHER -> result1

SequenceLeftParse(a, b, toks) ==
  LET result1 == Parse(a, toks)
  IN  CASE result1.kind = "Failure" ->
             ParsingFailure(result1.expected, result1.got, result1.calls)
        [] result1.kind = "Success" ->
             LET result2 == Parse(b, result1.rest)
                 calls == result1.calls + result2.calls
             IN  CASE result2.kind = "Failure" ->
                        ParsingFailure(result2.expected, result2.got, calls)
                   [] result2.kind = "Success" ->
                        ParsingSuccess(result1.value, result2.rest, calls)
                   [] OTHER -> IndexError(calls)
        [] OTHER -> result1

\* SequenceParse with the second parser run on the tokens the first was given
SequenceParseSameTokens(a, b, toks) ==
  LET result1 == Parse(a, toks)
  IN  CASE result1.kind = "Failure" ->
             ParsingFailure(result1.expected, result1.got, result1.calls)
        [] result1.kind = "Success" ->
             LET result2 == Parse(b, toks)
                 calls == result1.calls + result2.calls
             IN  CASE result2.kind = "Failure" ->
                        ParsingFailure(result2.expected, result2.got, calls)
                   [] result2.kind = "Success" ->
                        ParsingSuccess(SeqOf(result1.value, result2.value),
                                       result2.rest, calls)
                   [] OTHER -> IndexError(calls)
        [] OTHER -> result1

SequenceParse(a, b, toks) ==
  LET result1 == Parse(a, toks)
  IN  CASE result1.kind = "Failure" ->
             ParsingFailure(result1.expected, result1.got, result1.calls)
        [] result1.kind = "Success" ->
             LET result2 == Parse(b, result1.rest)
                 calls == result1.calls + result2.calls
             IN  CASE result2.kind = "Failure" ->
                        ParsingFailure(result2.expected, result2.got, calls)
                   [] result2.kind = "Success" ->
                        ParsingSuccess(SeqOf(result1.value, result2.value),
                                       result2.rest, calls)
                   [] OTHER -> IndexError(calls)
        [] OTHER -> result1

\* AltParse with the first failure's got kept
AltParseFirstGot(a, b, toks) ==
  LET result1 == Parse(a, toks)
  IN  CASE result1.kind = "Failure" ->
             LET result2 == Parse(b, toks)
                 calls == result1.calls + result2.calls
             IN  CASE result2.kind = "Failure" ->
                        ParsingFailure(result1.expected \o result2.expected,
                                       result1.got, calls)
                   [] result2.kind = "Success" ->
                        ParsingSuccess(result2.value, result2.rest, calls)
                   [] OTHER -> IndexError(calls)
        [] result1.kind = "Success" ->
             ParsingSuccess(result1.value, result1.rest, result1.calls)
        [] OTHER -> result1

AltParse(a, b, toks) ==
  LET result1 == Parse(a, toks)
  IN  CASE result1.kind = "Failure" ->
             LET result2 == Parse(b, toks)
                 calls == result1.calls + result2.calls
             IN  CASE result2.kind = "Failure" ->
                        ParsingFailure(result1.expected \o result2.expected,
                                       result2.got, calls)
                   [] result2.kind = "Success" ->
                        ParsingSuccess(result2.value, result2.rest, calls)
                   [] OTHER -> IndexError(calls)
        [] result1.kind = "Success" ->
             ParsingSuccess(result1.value, result1.rest, result1.calls)
        [] OTHER -> result1

\* SeqParser.map: the success of a SeqParser holds a Seq
MapParse(seqparser, mapper, toks) ==
  LET r == Parse(seqparser, toks)
  IN  CASE r.kind = "Failure" -> ParsingFailure(r.expected, r.got, r.calls)
        [] r.kind = "Success" ->
             ParsingSuccess(Apply2(mapper, r.value[2], r.value[3]),
                            r.rest, r.calls)
        [] OTHER -> r

LazyParse(parser_fn, toks) == Parse(ParserFn(parser_fn), toks)

Parse(p, toks) ==
  CASE p[1] = "token" -> TokenParse(p[2], p[3], toks)
    [] p[1] = "singleton" -> SingletonParse(p[2], p[3], toks)
    [] p[1] = "ignore" -> IgnoreParse(p[2], toks)
    [] p[1] = "lazy" -> LazyParse(p[2], toks)
    [] p[1] = "sequence_right" -> SequenceRightParse(p[2], p[3], toks)
    [] p[1] = "sequence_left" -> SequenceLeftParse(p[2], p[3], toks)
    [] p[1] = "sequence" -> SequenceParse(p[2], p[3], toks)
    [] p[1] = "alt" -> AltParse(p[2], p[3], toks)
    [] p[1] = "map" -> MapParse(p[2], p[3], toks)

\* the parsers the combinators are applied to
Leaves ==
  { TokenP("Int", "int_node"), Singleton("Plus", <<"plus">>),
    Ignore("RightParen"), Ignore("Int"), expr_parser }
MapperArgs == {"plus_node"}

\* the token lists parsed: the i-th token is at column i
InputTypes == {"Int", "Plus", "RightParen"}
TextOf(type) ==
  CASE type = "Int" -> <<"1">>
    [] type = "Plus" -> <<"+">>
    [] type = "RightParen" -> <<")">>
TokenLists ==
  {[i \in 1..Len(types) |-> Token(types[i], TextOf(types[i]), 1, i)] :
     types \in TextsUpTo(InputTypes, MaxToks)}

\* what the demo lexer returns for "1 * (2 + 3)" and for "(1"
DemoTokenLists ==
  { << Token("Int", <<"1">>, 1, 1), Token("Times", <<"*">>, 1, 3),
       Token("LeftParen", <<"(">>, 1, 5), Token("Int", <<"2">>, 1, 6),
       Token("Plus", <<"+">>, 1, 8), Token("Int", <<"3">>, 1, 10),
       Token("RightParen", <<")">>, 1, 11) >>,
    << Token("LeftParen", <<"(">>, 1, 1), Token("Int", <<"1">>, 1, 2) >> }

\* combinators inside one another in p
RECURSIVE Depth(_)
Depth(p) ==
  CASE p[1] \in {"token", "singleton", "ignore", "lazy"} -> 0
    [] p[1] = "map" -> Depth(p[2])
    [] OTHER -> 1 + (IF Depth(p[2]) > Depth(p[3]) THEN Depth(p[2])
                     ELSE Depth(p[3]))

Building == result = NoResult /\ Depth(parser) < MaxDepth

\* self.sequence_right(parser), with the parser built so far as self or as
\* the argument
sequence_right(q, asSelf) ==
  /\ Building
  /\ parser' = IF asSelf THEN SequenceRight(parser, q)
               ELSE SequenceRight(q, parser)
  /\ UNCHANGED <<ptokens, result>>
  /\ UNCHANGED lexvars

sequence_left(q, asSelf) ==
  /\ Building
  /\ parser' = IF asSelf THEN SequenceLeft(parser, q)
               ELSE SequenceLeft(q, parser)
  /\ UNCHANGED <<ptokens, result>>
  /\ UNCHANGED lexvars

sequence(q, asSelf) ==
  /\ Building
  /\ parser' = IF asSelf THEN Sequence(parser, q) ELSE Sequence(q, parser)
  /\ UNCHANGED <<ptokens, result>>
  /\ UNCHANGED lexvars

alt(q, asSelf) ==
  /\ Building
  /\ parser' = IF asSelf THEN Alt(parser, q) ELSE Alt(q, parser)
  /\ UNCHANGED <<ptokens, result>>
  /\ UNCHANGED lexvars

\* SeqParser.map
map(mapper) ==
  /\ result = NoResult
  /\ parser[1] = "sequence"
  /\ parser' = Map(parser, mapper)
  /\ UNCHANGED <<ptokens, result>>
  /\ UNCHANGED lexvars

\* parser.parse(toks)
parse ==
  /\ result = NoResult
  /\ \E toks \in TokenLists :
       /\ ptokens' = toks
       /\ result' = Parse(parser, toks)
  /\ UNCHANGED parser
  /\ UNCHANGED lexvars

\* demo.py: expr_parser.parse(lexing_result)
demo_parse ==
  /\ result = NoResult
  /\ parser = expr_parser
  /\ \E toks \in DemoTokenLists :
       /\ ptokens' = toks
       /\ result' = Parse(parser, toks)
  /\ UNCHANGED parser
  /\ UNCHANGED lexvars

InitParser ==
  /\ regexes = <<>>
  /\ strings = <<>>
  /\ regex_skips = <<>>
  /\ string_skips = <<>>
  /\ nregs = 0
  /\ pc = "config"
  /\ source = <<>>
  /\ code = <<>>
  /\ line = 1
  /\ column = 1
  /\ tokens = <<>>
  /\ matched = FALSE
  /\ skip_matched = FALSE
  /\ error = NoError
  /\ ptokens = <<>>
  /\ parser \in Leaves
  /\ result = NoResult

NextParser ==
  \/ \E q \in Leaves, asSelf \in BOOLEAN : sequence_right(q, asSelf)
  \/ \E q \in Leaves, asSelf \in BOOLEAN : sequence_left(q, asSelf)
  \/ \E q \in Leaves, asSelf \in BOOLEAN : sequence(q, asSelf)
  \/ \E q \in Leaves, asSelf \in BOOLEAN : alt(q, asSelf)
  \/ \E mapper \in MapperArgs : map(mapper)
  \/ parse
  \/ demo_parse

SpecParser == InitParser /\ [][NextParser]_vars

---------------------------------------------------------------------------
(* The lexer's specification. *)

InitLexer ==
  /\ \/ /\ regexes = <<>>
        /\ strings = <<>>
        /\ regex_skips = <<>>
        /\ string_skips = <<>>
        /\ nregs = 0
     \/ /\ IsDemoLexer
        /\ nregs = DemoRegs
  /\ pc = "config"
  /\ source = <<>>
  /\ code = <<>>
  /\ line = 1
  /\ column = 1
  /\ tokens = <<>>
  /\ matched = FALSE
  /\ skip_matched = FALSE
  /\ error = NoError
  /\ ptokens = <<>>
  /\ parser = expr_parser
  /\ result = NoResult

NextLexer ==
  \/ \E t \in TypeArgs, r \in RegexArgs : add_regex(t, r)
  \/ \E t \in TypeArgs, s \in StrArgs : add_str(t, s)
  \/ \E r \in RegexArgs : skip_regex(r)
  \/ \E s \in SkipStrArgs : skip_string(s)
  \/ Lex
  \/ DemoLex
  \/ RunSkipsPass
  \/ RunSkipsCheck
  \/ MatchRegexes
  \/ MatchStrings

SpecLexer == InitLexer /\ [][NextLexer]_vars

LexStep == RunSkipsPass \/ RunSkipsCheck \/ MatchRegexes \/ MatchStrings

\* lex is sequential code: once called, it keeps executing
LiveLexer == SpecLexer /\ WF_vars(LexStep)

---------------------------------------------------------------------------
(* What the lexer claims are stated with. *)

Returned == pc \in {"done", "error"}

\* how many characters of the source lex has consumed
Consumed == Len(source) - Len(code)

\* line and column of the character after the first k of text, counted
\* from the text as a whole
LineAt(text, k) == 1 + Cardinality({i \in 1..k : text[i] = "\n"})
ColumnAt(text, k) ==
  LET nl == {i \in 1..k : text[i] = "\n"}
      last == IF nl = {} THEN 0 ELSE CHOOSE i \in nl : \A j \in nl : j <= i
  IN  k - last + 1

\* the stored rules: token rules (patterns, literals) and skip rules
NoRegex == [cls |-> {}, min |-> 0, anchored |-> TRUE]
PatternRules ==
  {[token |-> TRUE, type |-> regexes[i].key, isre |-> TRUE,
    re |-> regexes[i].val, lit |-> <<>>] : i \in 1..Len(regexes)}
LiteralRules ==
  {[token |-> TRUE, type |-> strings[i].key, isre |-> FALSE,
    re |-> NoRegex, lit |-> strings[i].val] : i \in 1..Len(strings)}
SkipRules ==
  {[token |-> FALSE, type |-> "skip", isre |-> TRUE,
    re |-> regex_skips[i], lit |-> <<>>] : i \in 1..Len(regex_skips)}
  \cup
  {[token |-> FALSE, type |-> "skip", isre |-> FALSE,
    re |-> NoRegex, lit |-> string_skips[i]] : i \in 1..Len(string_skips)}
TokenRules == PatternRules \cup LiteralRules
AllRules == TokenRules \cup SkipRules

\* the rule matches at the start of text
RuleMatches(rule, text) ==
  IF rule.isre THEN ReMatch(rule.re, text) # -1 ELSE StartsWith(text, rule.lit)

\* text is, as a whole, a text of the rule (and not empty)
RuleText(rule, text) ==
  /\ text # <<>>
  /\ IF rule.isre
       THEN \A i \in 1..Len(text) : text[i] \in rule.re.cls
       ELSE text = rule.lit

MatchesEmpty(rule) == RuleMatches(rule, <<>>)
FirstChars(rule) ==
  IF rule.isre THEN rule.re.cls
  ELSE IF rule.lit = <<>> THEN {} ELSE {rule.lit[1]}

\* two rules that can match at the same place
Overlap(r1, r2) ==
  \/ MatchesEmpty(r1)
  \/ MatchesEmpty(r2)
  \/ FirstChars(r1) \cap FirstChars(r2) # {}

NoOverlapIn(rules) ==
  /\ \A r \in rules : ~MatchesEmpty(r)
  /\ \A r1, r2 \in rules : r1 # r2 => ~Overlap(r1, r2)

\* the ways to write text as texts of the stored rules, one after another
RECURSIVE Decompositions(_)
Decompositions(text) ==
  IF text = <<>> THEN {<<>>}
  ELSE UNION {
         {<<[rule |-> r, text |-> SubSeq(text, 1, k)]>> \o d :
            d \in Decompositions(Drop(text, k))} :
         <<r, k>> \in {<<r, k>> \in AllRules \X (1..Len(text)) :
                         RuleText(r, SubSeq(text, 1, k))} }

\* the tokens of a decomposition of text, each at the place of its first
\* character; at is the number of characters before pieces i..
RECURSIVE PieceTokens(_, _, _, _)
PieceTokens(text, d, i, at) ==
  IF i > Len(d) THEN <<>>
  ELSE LET rest == PieceTokens(text, d, i + 1, at + Len(d[i].text))
       IN  IF d[i].rule.token
             THEN <<Token(d[i].rule.type, d[i].text,
                          LineAt(text, at), ColumnAt(text, at))>> \o rest
             ELSE rest
ExpectedTokens(text, d) == PieceTokens(text, d, 1, 0)

\* no pattern's text is followed by a character the pattern also takes
RECURSIVE Separated(_, _, _, _)
Separated(text, d, i, at) ==
  \/ i > Len(d)
  \/ /\ LET end == at + Len(d[i].text)
        IN  /\ (d[i].rule.token /\ d[i].rule.isre /\ end < Len(text))
                 => text[end + 1] \notin d[i].rule.re.cls
            /\ Separated(text, d, i + 1, end)

---------------------------------------------------------------------------
(* C2. *)

\* C2 as stated: with no two token rules (patterns, literals) overlapping,
\* lexing a concatenation of token texts and skip texts returns exactly
\* those tokens, each located at its first character.
C2_AsStated ==
  (Returned /\ NoOverlapIn(TokenRules)) =>
    \A d \in Decompositions(source) :
      pc = "done" /\ tokens = ExpectedTokens(source, d)

\* C2, amended: with no two stored rules (patterns, literals, skip patterns,
\* skip literals) able to match at the same place and none matching the empty
\* text, lexing a concatenation of token texts and skip texts in which no
\* pattern's text is directly followed by a character that pattern also
\* takes returns exactly those tokens (types, texts, order), each located at
\* the line and column of its first character.
C2_LexReproducesTokens ==
  (Returned /\ NoOverlapIn(AllRules)) =>
    \A d \in Decompositions(source) :
      Separated(source, d, 1, 0) =>
        pc = "done" /\ tokens = ExpectedTokens(source, d)

\* a pattern token, skipped text with a newline, and a token on line 2
C2_Witness ==
  /\ pc = "done"
  /\ NoOverlapIn(AllRules)
  /\ SkipRules # {}
  /\ \E d \in Decompositions(source) : Separated(source, d, 1, 0)
  /\ Len(tokens) = 2
  /\ tokens[1].line = 1
  /\ tokens[2].line = 2
  /\ Consumed = 3

---------------------------------------------------------------------------
(* C3. *)

NothingMatches(text) == \A r \in AllRules : ~RuleMatches(r, text)
UsedChars ==
  UNION {IF r.isre THEN r.re.cls ELSE {r.lit[i] : i \in 1..Len(r.lit)} :
           r \in AllRules}
DollarSource == <<"1", " ", "$", " ", "2">>

\* C3: a LexingError is returned at a character where no pattern, literal or
\* skip rule matches, its location is the line and column of that character
\* counted over everything consumed before it, a source holding a character
\* of no rule never yields a token list, and the demo lexer on "1 $ 2"
\* returns the error at line 1, column 3.
C3_ErrorLocation ==
  /\ pc = "error" =>
       /\ code # <<>>
       /\ NothingMatches(code)
       /\ error.line = LineAt(source, Consumed)
       /\ error.column = ColumnAt(source, Consumed)
       /\ error.char = source[Consumed + 1]
  /\ pc = "done" => \A i \in 1..Len(source) : source[i] \in UsedChars
  /\ (Returned /\ IsDemoLexer /\ source = DollarSource) =>
       /\ pc = "error"
       /\ error = [line |-> 1, column |-> 3, char |-> "$"]

\* an error at the start of line 2, after a token and a skipped newline
C3_Witness ==
  /\ pc = "error"
  /\ Len(tokens) = 1
  /\ tokens[1].value = <<"1">>
  /\ error.line = 2
  /\ error.column = 1
  /\ Consumed = 2

---------------------------------------------------------------------------
(* C8. *)

IsPrefix(s, t) == Len(s) <= Len(t) /\ SubSeq(t, 1, Len(s)) = s
StoredCount ==
  Len(regexes) + Len(strings) + Len(regex_skips) + Len(string_skips)

\* C8: every registration call appends one entry to its store and leaves
\* every earlier entry of every store in place and unchanged.
C8_RegistrationsAppend ==
  [][(pc = "config" /\ pc' = "config") =>
       /\ IsPrefix(regexes, regexes')
       /\ IsPrefix(strings, strings')
       /\ IsPrefix(regex_skips, regex_skips')
       /\ IsPrefix(string_skips, string_skips')
       /\ StoredCount' = StoredCount + 1]_vars

---------------------------------------------------------------------------
(* C9. *)

\* C9: a literal token is emitted only where the skip phase has just run and
\* no pattern matches, so a match phase emits one token: when the literal
\* loop emits a token, this iteration's pattern loop has not matched (the
\* text is where the skip phase left it) and no pattern matches the text.
C9_LiteralOnlyWithoutPattern ==
  [][(pc = "strings" /\ Len(tokens') > Len(tokens)) =>
       (~matched /\ FirstRegex(code) = 0)]_vars

---------------------------------------------------------------------------
(* C10. *)

\* C10: every call of lex returns, whatever is registered.
C10_LexReturns == (pc # "config") ~> Returned

---------------------------------------------------------------------------
(* What the parser claims are stated with. *)

Parsed == result.kind # "None"
IsSuffix(s, t) ==
  Len(s) <= Len(t) /\ SubSeq(t, Len(t) - Len(s) + 1, Len(t)) = s
\* a result without the count of calls
Outcome(r) == [r EXCEPT !.calls = 0]

---------------------------------------------------------------------------
(* C1. *)

\* C1: token(T, f).parse on a non-empty list whose head is not of type T
\* returns ParsingFailure([T], head token); it does not raise and got is not
\* a later token.
C1_TokenMismatch ==
  (Parsed /\ parser[1] = "token" /\ ptokens # <<>>
     /\ ptokens[1].type # parser[2]) =>
    Outcome(result) = Outcome(ParsingFailure(<<parser[2]>>, ptokens[1], 0))

---------------------------------------------------------------------------
(* C4. *)

\* C4: when a.parse(ts) and b.parse(ts) both return failures, a.alt(b)
\* returns one failure whose expected is a's expected followed by b's and
\* whose got is b's got.
C4_AltMergesFailures ==
  (Parsed /\ parser[1] = "alt") =>
    LET ra == Parse(parser[2], ptokens)
        rb == Parse(parser[3], ptokens)
    IN  (ra.kind = "Failure" /\ rb.kind = "Failure") =>
          /\ result.kind = "Failure"
          /\ result.expected = ra.expected \o rb.expected
          /\ result.got = rb.got

\* both fail, on different tokens, and a expects several types
C4_Witness ==
  /\ Parsed
  /\ parser[1] = "alt"
  /\ LET ra == Parse(parser[2], ptokens)
         rb == Parse(parser[3], ptokens)
     IN  /\ ra.kind = "Failure"
         /\ rb.kind = "Failure"
         /\ ra.got # rb.got
         /\ Len(ra.expected) > 1
         /\ ra.expected # rb.expected

---------------------------------------------------------------------------
(* C5. *)

\* C5: when a does not succeed on ts and b succeeds on ts, a.alt(b) returns
\* b's success on ts: b's value and b's remaining tokens.
C5_AltReturnsSecond ==
  (Parsed /\ parser[1] = "alt") =>
    LET ra == Parse(parser[2], ptokens)
        rb == Parse(parser[3], ptokens)
    IN  (ra.kind # "Success" /\ rb.kind = "Success") =>
          Outcome(result) = Outcome(rb)

---------------------------------------------------------------------------
(* C6. *)

\* C6: a.sequence(b).map(f) returns Success(f(va, vb), r2) when a succeeds
\* with (va, r1) and b succeeds on r1 with (vb, r2); a's failure, with b
\* not run, when a fails; b's failure when a succeeds and b fails on r1.
C6_SequenceMap ==
  (Parsed /\ parser[1] = "map" /\ parser[2][1] = "sequence") =>
    LET a == parser[2][2]
        b == parser[2][3]
        f == parser[3]
        ra == Parse(a, ptokens)
        rb == Parse(b, ra.rest)
    IN  /\ ra.kind = "Failure" =>
             /\ Outcome(result) = Outcome(ParsingFailure(ra.expected, ra.got, 0))
             /\ result.calls = ra.calls
        /\ (ra.kind = "Success" /\ rb.kind = "Failure") =>
             Outcome(result) = Outcome(ParsingFailure(rb.expected, rb.got, 0))
        /\ (ra.kind = "Success" /\ rb.kind = "Success") =>
             Outcome(result) =
               Outcome(ParsingSuccess(Apply2(f, ra.value, rb.value), rb.rest, 0))

\* two successes with a token left over
C6_Witness ==
  /\ Parsed
  /\ parser[1] = "map"
  /\ parser[2][1] = "sequence"
  /\ LET ra == Parse(parser[2][2], ptokens)
         rb == Parse(parser[2][3], ra.rest)
     IN  /\ ra.kind = "Success"
         /\ rb.kind = "Success"
         /\ ra.value # rb.value
         /\ Len(rb.rest) = 1

---------------------------------------------------------------------------
(* C7. *)

\* C7: the rest of every success is a suffix of the list given to parse.
C7_RestIsSuffix ==
  (Parsed /\ result.kind = "Success") => IsSuffix(result.rest, ptokens)

\* a combined parser that consumed two tokens of three
C7_Witness ==
  /\ Parsed
  /\ result.kind = "Success"
  /\ Depth(parser) > 0
  /\ Len(ptokens) = 3
  /\ Len(result.rest) = 1

=============================================================================
